---- MODULE Spec2Model ----
(***************************************************************************)
(* A model of the dependency-translation core of pixi-build-ros:           *)
(*   - merge_requirements                 (ros_generator.py)               *)
(*   - rosdep_to_conda_package_name       (utils.py)                       *)
(*   - package_xml_to_conda_requirements  (utils.py)                       *)
(*   - Distro                             (distro.py)                      *)
(*                                                                         *)
(* Strings that the code transforms (dependency and package names) are     *)
(* sequences of tokens: a token is a word or one of the separators "_" and *)
(* "-", so that str.replace('_', '-') is a real transformation.  Strings   *)
(* that are only compared (requirement names inside merge_requirements,    *)
(* template texts, platform tags) are plain TLA+ strings.                  *)
(***************************************************************************)
EXTENDS Integers, Sequences, FiniteSets, TLC

VARIABLES
    \* ---- merge_requirements --------------------------------------------
    mpc,            \* "ready" | "done" ("idle" when the call is not under study)
    model_lists,    \* the three lists read from model_requirements (the `model` arguments)
    model_before,   \* history: their contents when the call started
    package_lists,  \* the three lists read from package_requirements (the `package` arguments)
    merged,         \* the ConditionalRequirements built by the call (line 154)
    \* ---- rosdep_to_conda_package_name ----------------------------------
    rpc,            \* "ready" | "done" ("idle" when the call is not under study)
    dep_name,       \* the dependency name being mapped
    build_target,   \* the platform the recipe is generated for (generate_recipe's host_platform)
    conda_packages, \* the returned list, empty before the call
    \* ---- shared by the mapper and the extractor ------------------------
    distro,         \* the constructed Distro object
    robostack_data, \* the loaded robostack.yaml
    \* ---- package_xml_to_conda_requirements -----------------------------
    calls,          \* number of extractions run on pkg so far
    pkg,            \* the CatkinPackage: its six dependency lists
    pkg_parsed,     \* history: the six lists as the parser produced them
    requirements,   \* the returned ConditionalRequirements, empty before the first call
    \* ---- ROSGenerator.generate_recipe and the process around it ----------
    gpc,            \* "idle" | "called" | "returned" | "failed" ("off" when not under study)
    environ,        \* os.environ["ROS_VERSION"]: None when unset
    last_distros,   \* history: the names of the last two Distro objects constructed
    call,           \* the arguments of the current generate_recipe call, and its files
    generated       \* what the current call has produced

mergeVars   == <<mpc, model_lists, model_before, package_lists, merged>>
mapVars     == <<rpc, dep_name, build_target, conda_packages>>
sharedVars  == <<distro, robostack_data>>
extractVars == <<calls, pkg, pkg_parsed, requirements>>
genVars     == <<gpc, environ, last_distros, call, generated>>
vars        == <<mergeVars, mapVars, sharedVars, extractVars, genVars>>

\* An Optional value is a sequence of at most one element: None is the empty one.
None == <<>>
Some(x) == <<x>>

\* ---------------------------------------------------------------- bounds
\* Total number of requirements over the six lists handed to merge_requirements.
MaxItems == 3
\* Length of a list of a mapping-table entry.
MaxList == 2
\* Number of dependency declarations of a manifest.
MaxDecls == 2
\* Number of extractions run on one parsed manifest.
MaxCalls == 2

\* ------------------------------------------------------------ sequences
RECURSIVE SeqsUpTo(_, _)
\* All sequences over S of length at most n.
SeqsUpTo(S, n) ==
    IF n = 0 THEN {<<>>}
    ELSE LET shorter == SeqsUpTo(S, n - 1)
         IN  shorter \cup {Append(s, x) : s \in {t \in shorter : Len(t) = n - 1}, x \in S}

Range(s) == {s[i] : i \in DOMAIN s}

\* ===========================================================================
\* ItemPackageDependency and ConditionalRequirements
\* ===========================================================================

\* An ItemPackageDependency holding a concrete requirement: .concrete.package_name
\* is the name and .template is None.
ConcreteItem(name) == [concrete |-> Some(name), template |-> None]
\* An ItemPackageDependency holding a template: .concrete is None and .template is
\* the text.
TemplateItem(text) == [concrete |-> None, template |-> Some(text)]

Categories == {"host", "build", "run"}

MergeNames == {"numpy", "cmake"}
MergeTemplates == {"${{ compiler('c') }}", "${{ compiler('cxx') }}"}
MergeItems == {ConcreteItem(n) : n \in MergeNames} \cup {TemplateItem(t) : t \in MergeTemplates}

\* str(x) of an Optional[str]: str(None) is the text "None".
Str(x) == IF x = None THEN "None" ELSE x[1]

\* ConditionalRequirements(): three empty lists.
EmptyRequirements == [c \in Categories |-> <<>>]

\* ===========================================================================
\* merge_requirements (ros_generator.py:152-179)
\* ===========================================================================

\* One iteration of the loop of merge_unique_items (lines 165-171) with `result`
\* a separate list from `model` (the tests read `model`, the appends go to
\* `result`); state is <<model, result>>.
merge_item_detached(state, item) ==
    LET model == state[1]
        result == state[2]
        package_names == {model[i].concrete : i \in {j \in DOMAIN model : model[j].concrete # None}}
        r1 == IF item.concrete # None /\ item.concrete \notin package_names
              THEN Append(result, item) ELSE result
        r2 == IF Str(item.template) \notin {Str(model[i].template) : i \in DOMAIN model}
              THEN Append(r1, item) ELSE r1
    IN  <<model, r2>>

\* One iteration of the loop of merge_unique_items without the test of lines
\* 170-171: a template is never appended.
merge_item_concrete_only(state, item) ==
    LET model == state[1]
        package_names == {model[i].concrete : i \in {j \in DOMAIN model : model[j].concrete # None}}
        m1 == IF item.concrete # None /\ item.concrete \notin package_names
              THEN Append(model, item) ELSE model
    IN  <<m1, m1>>

\* One iteration of the loop of merge_unique_items (lines 165-171).  `result` and
\* `model` are the same list object (line 163), so an append to result is seen by
\* the next test on model; state is <<model, result>> and both stay equal.
merge_item(state, item) ==
    LET model == state[1]
        package_names == {model[i].concrete : i \in {j \in DOMAIN model : model[j].concrete # None}}
        m1 == IF item.concrete # None /\ item.concrete \notin package_names
              THEN Append(model, item) ELSE model
        m2 == IF Str(item.template) \notin {Str(m1[i].template) : i \in DOMAIN m1}
              THEN Append(m1, item) ELSE m1
    IN  <<m2, m2>>

RECURSIVE merge_loop(_, _)
\* for item in package: ... (line 165), from state <<model, result>>.
merge_loop(state, package) ==
    IF package = <<>> THEN state
    ELSE merge_loop(merge_item(state, Head(package)), Tail(package))

\* merge_unique_items called with its two arguments exchanged.
merge_unique_items_swapped(model, package) == merge_loop(<<package, package>>, model)

\* merge_unique_items(model, package): <<model after the call, returned list>>.
merge_unique_items(model, package) == merge_loop(<<model, model>>, package)

\* The inputs of one call: a sequence of (list, item) placements, at most MaxItems
\* long, read off into the six lists.
Placements == {"model", "package"} \X Categories \X MergeItems

ListOf(placed, side, cat) ==
    LET sel == SelectSeq(placed, LAMBDA p : p[1] = side /\ p[2] = cat)
    IN  [i \in DOMAIN sel |-> sel[i][3]]

\* Two requirements are the same: both concrete with equal names, or both
\* templates with equal text.
SameRequirement(a, b) ==
    \/ a.concrete # None /\ b.concrete # None /\ a.concrete = b.concrete
    \/ a.template # None /\ b.template # None /\ a.template = b.template

NoDuplicates(list) ==
    \A i, j \in DOMAIN list : i < j => ~SameRequirement(list[i], list[j])

MergeIdle ==
    /\ mpc = "idle"
    /\ model_lists = EmptyRequirements
    /\ model_before = EmptyRequirements
    /\ package_lists = EmptyRequirements
    /\ merged = EmptyRequirements

\* The base comes from the pixi manifest, a table keyed by package name: no
\* category of it names a requirement twice.
MergeInit ==
    /\ mpc = "ready"
    /\ \E placed \in SeqsUpTo(Placements, MaxItems) :
         /\ model_lists = [c \in Categories |-> ListOf(placed, "model", c)]
         /\ package_lists = [c \in Categories |-> ListOf(placed, "package", c)]
    /\ \A c \in Categories : NoDuplicates(model_lists[c])
    /\ model_before = model_lists
    /\ merged = EmptyRequirements

\* merge_requirements(model_requirements, package_requirements): lines 174-176
\* call merge_unique_items once per category; each call returns the list it was
\* handed as `model`, extended in place.
MergeRequirements ==
    /\ mpc = "ready"
    /\ LET host == merge_unique_items(model_lists.host, package_lists.host)
           build == merge_unique_items(model_lists.build, package_lists.build)
           run == merge_unique_items(model_lists.run, package_lists.run)
       IN  /\ merged' = [host |-> host[2], build |-> build[2], run |-> run[2]]
           /\ model_lists' = [host |-> host[1], build |-> build[1], run |-> run[1]]
    /\ mpc' = "done"
    /\ UNCHANGED <<model_before, package_lists>>
    /\ UNCHANGED <<mapVars, sharedVars, extractVars, genVars>>


\* ===========================================================================
\* Distro (distro.py)
\* ===========================================================================

\* Dependency and package names, as token sequences.
ament_cmake == <<"ament", "_", "cmake">>
ament_python == <<"ament", "_", "python">>
rosidl_default_generators == <<"rosidl", "_", "default", "_", "generators">>
ros_workspace == <<"ros", "_", "workspace">>
std_msgs == <<"std", "_", "msgs">>
rclcpp == <<"rclcpp">>
opengl == <<"opengl">>
boost == <<"boost">>
libx11_dev == <<"libx11", "-", "dev">>

\* The rosdistro index: per distribution its type and its release packages.
DistroIndex ==
    [jazzy  |-> [distribution_type |-> "ros2",
                 release_packages |-> {std_msgs, rclcpp, ros_workspace, ament_cmake}],
     humble |-> [distribution_type |-> "ros2",
                 release_packages |-> {rclcpp}],
     noetic |-> [distribution_type |-> "ros1",
                 release_packages |-> {std_msgs}]]

DistroNames == DOMAIN DistroIndex

\* Distro(distro_name): the fields __init__ sets (lines 11-17).
Distro(distro_name) ==
    [distro_name |-> distro_name,
     distribution_type |-> DistroIndex[distro_name].distribution_type,
     release_packages |-> DistroIndex[distro_name].release_packages]

\* Distro.check_ros1 (lines 25-26).
check_ros1(d) == d.distribution_type = "ros1"

\* Distro.has_package (lines 34-37).
has_package(d, package_name) == package_name \in d.release_packages

\* ===========================================================================
\* rosdep_to_conda_package_name (utils.py:68-121)
\* ===========================================================================

\* str.replace(old, new) on a token sequence.
Replace(s, old, new) == [i \in DOMAIN s |-> IF s[i] = old THEN new ELSE s[i]]

\* f"ros-{distro.name}-{dep_name.replace('_', '-')}" (lines 76 and 93).
ros_package_name(dep, d) == <<"ros", "-", d.distro_name, "-">> \o Replace(dep, "_", "-")

\* The names line 75 tests for.
ToolingNames == {ament_cmake, ament_python, rosidl_default_generators, ros_workspace}

REQUIRE_GL == <<"REQUIRE", "_", "GL">>
REQUIRE_OPENGL == <<"REQUIRE", "_", "OPENGL">>
libgl_devel == <<"libgl", "-", "devel">>
libopengl_devel == <<"libopengl", "-", "devel">>
xorg_libx11 == <<"xorg", "-", "libx11">>
xorg_libxext == <<"xorg", "-", "libxext">>

\* target_platform = "osx" (line 72): a literal, whatever platform is built for.
target_platform == "osx"

Platforms == {"linux", "osx", "win64"}

\* "linux" in p, for p one of the three platform tags line 71 names.
ContainsLinux(p) == p = "linux"

RECURSIVE ListRemove(_, _)
\* list.remove(x): drops the first occurrence of x (x is in the list).
ListRemove(list, x) ==
    IF list = <<>> THEN <<>>
    ELSE IF Head(list) = x THEN Tail(list)
    ELSE <<Head(list)>> \o ListRemove(Tail(list), x)

\* Lines 108-111 for platform p.
expand_gl(packages, p) ==
    IF REQUIRE_GL \in Range(packages)
    THEN LET removed == ListRemove(packages, REQUIRE_GL)
         IN  IF ContainsLinux(p) THEN Append(removed, libgl_devel) ELSE removed
    ELSE packages

\* Lines 112-119 for platform p.
expand_opengl(packages, p) ==
    IF REQUIRE_OPENGL \in Range(packages)
    THEN LET removed == ListRemove(packages, REQUIRE_OPENGL)
             gl == IF ContainsLinux(p) THEN removed \o <<libgl_devel, libopengl_devel>> ELSE removed
         IN  IF p \in {"linux", "osx", "unix"} THEN gl \o <<xorg_libx11, xorg_libxext>> ELSE gl
    ELSE packages

\* The virtual-marker expansion, lines 106-119, for platform p.
expand_markers(packages, p) == expand_opengl(expand_gl(packages, p), p)

\* A mapping-table entry: its "robostack" value is a list, or a dict from platform
\* to list (by_platform[p] is None for a platform the dict lacks), or is missing.
ListEntry(list) == [kind |-> "list", list |-> list, by_platform |-> [p \in Platforms |-> None]]
DictEntry(d) == [kind |-> "dict", list |-> <<>>, by_platform |-> d]
BareEntry == [kind |-> "missing", list |-> <<>>, by_platform |-> [p \in Platforms |-> None]]

\* robostack_data[dep_name].get("robostack", []) and, for a dict,
\* conda_packages.get(target_platform, []) (lines 100-104).
entry_packages(entry, p) ==
    CASE entry.kind = "list" -> entry.list
      [] entry.kind = "dict" -> IF entry.by_platform[p] = None THEN <<>> ELSE entry.by_platform[p][1]
      [] OTHER -> <<>>

\* rosdep_to_conda_package_name with the distribution consulted before the table.
rosdep_distro_first(dep, d, data) ==
    IF dep \in ToolingNames THEN <<ros_package_name(dep, d)>>
    ELSE IF has_package(d, dep) THEN <<ros_package_name(dep, d)>>
    ELSE IF dep \notin DOMAIN data THEN <<dep>>
    ELSE expand_markers(entry_packages(data[dep], target_platform), target_platform)

\* rosdep_to_conda_package_name with the fallback of line 96 returning the
\* hyphenated name.
rosdep_fallback_hyphenated(dep, d, data) ==
    IF dep \in ToolingNames THEN <<ros_package_name(dep, d)>>
    ELSE IF dep \notin DOMAIN data
         THEN IF has_package(d, dep) THEN <<ros_package_name(dep, d)>>
              ELSE <<Replace(dep, "_", "-")>>
    ELSE expand_markers(entry_packages(data[dep], target_platform), target_platform)

\* rosdep_to_conda_package_name with line 93 using the name as it is.
rosdep_no_replace(dep, d, data) ==
    IF dep \in ToolingNames THEN <<ros_package_name(dep, d)>>
    ELSE IF dep \notin DOMAIN data
         THEN IF has_package(d, dep) THEN <<<<"ros", "-", d.distro_name, "-">> \o dep>>
              ELSE <<dep>>
    ELSE expand_markers(entry_packages(data[dep], target_platform), target_platform)

\* rosdep_to_conda_package_name(dep_name, distro), with the table it loads.
rosdep_to_conda_package_name(dep, d, data) ==
    IF dep \in ToolingNames THEN <<ros_package_name(dep, d)>>
    ELSE IF dep \notin DOMAIN data
         THEN IF has_package(d, dep) THEN <<ros_package_name(dep, d)>>
              ELSE <<dep>>
    ELSE expand_markers(entry_packages(data[dep], target_platform), target_platform)

\* ---- the inputs of the mapper
DepNames == {ament_cmake, ros_workspace, std_msgs, rclcpp, opengl, boost}
TableKeys == {opengl, ament_cmake, std_msgs}
TableTokens == {REQUIRE_GL, REQUIRE_OPENGL, libx11_dev}
\* Platforms a platform-keyed entry may have a list for, each at most one long.
TablePlatforms == {"linux", "osx"}
PlatformLists == {None} \cup {Some(l) : l \in SeqsUpTo(TableTokens, MaxList - 1)}

Entries ==
    {ListEntry(l) : l \in SeqsUpTo(TableTokens, MaxList)}
    \cup {DictEntry([p \in Platforms |-> IF p = "linux" THEN a ELSE IF p = "osx" THEN b ELSE None])
            : a \in PlatformLists, b \in PlatformLists}
    \cup {BareEntry}

EmptyTable == [k \in {} |-> BareEntry]
Tables == {EmptyTable} \cup {[k \in {key} |-> e] : key \in TableKeys, e \in Entries}

MapIdle ==
    /\ rpc = "idle"
    /\ dep_name = <<>>
    /\ build_target = "osx"
    /\ conda_packages = <<>>

MapInit ==
    /\ rpc = "ready"
    /\ dep_name \in DepNames
    /\ build_target \in Platforms
    /\ conda_packages = <<>>

\* One call of rosdep_to_conda_package_name(dep_name, distro).
RosdepToCondaPackageName ==
    /\ rpc = "ready"
    /\ conda_packages' = rosdep_to_conda_package_name(dep_name, distro, robostack_data)
    /\ rpc' = "done"
    /\ UNCHANGED <<dep_name, build_target>>
    /\ UNCHANGED <<mergeVars, sharedVars, extractVars, genVars>>


\* ===========================================================================
\* package_xml_to_conda_requirements (utils.py:123-160)
\* ===========================================================================

\* The six dependency lists of a CatkinPackage the extractor reads.
DependLists == {"buildtool_depends", "buildtool_export_depends", "build_depends",
                "build_export_depends", "run_depends", "exec_depends"}

\* A Dependency of the manifest: its name and its evaluated condition.
Dependency(name, evaluated_condition) == [name |-> name, evaluated_condition |-> evaluated_condition]

\* Lines 130-134: build_deps is pkg.buildtool_depends itself and each += extends
\* that list in place; the package after these lines.
grow_buildtool_depends(p) ==
    [p EXCEPT !.buildtool_depends =
        ((p.buildtool_depends \o p.buildtool_export_depends) \o p.build_depends)
            \o p.build_export_depends]

\* Lines 142-145: run_deps is pkg.run_depends itself and each += extends that
\* list in place; the package after these lines.
grow_run_depends(p) ==
    [p EXCEPT !.run_depends =
        ((p.run_depends \o p.exec_depends) \o p.build_export_depends)
            \o p.buildtool_export_depends]

\* [d.name for d in deps] without the test of the evaluated condition.
all_names(deps) == [i \in DOMAIN deps |-> deps[i].name]

\* [d.name for d in deps if d.evaluated_condition] (lines 135 and 146).
condition_names(deps) ==
    LET kept == SelectSeq(deps, LAMBDA d : d.evaluated_condition)
    IN  [i \in DOMAIN kept |-> kept[i].name]

\* Line 138 taken for every distribution.
workspace_always(d) == <<ros_workspace>>

\* Lines 137-138: what a generation-2 distribution adds to build_deps.
workspace_default(d) == IF ~check_ros1(d) THEN <<ros_workspace>> ELSE <<>>

RECURSIVE Flatten(_)
\* chain.from_iterable(lists).
Flatten(lists) == IF lists = <<>> THEN <<>> ELSE Head(lists) \o Flatten(Tail(lists))

RECURSIVE DictFromKeys(_)
\* list(dict.fromkeys(s)): the first occurrence of each element, in order.
DictFromKeys(s) ==
    IF s = <<>> THEN <<>>
    ELSE LET front == DictFromKeys(SubSeq(s, 1, Len(s) - 1))
             last == s[Len(s)]
         IN  IF last \in Range(front) THEN front ELSE Append(front, last)

\* Lines 139-140 and 147-148 without the dict.fromkeys of lines 140 and 148.
conda_deps_all(names, d, data) ==
    Flatten([i \in DOMAIN names |-> rosdep_to_conda_package_name(names[i], d, data)])

\* Lines 139-140 and 147-148: map every name, flatten, deduplicate.
conda_deps(names, d, data) ==
    DictFromKeys(Flatten([i \in DOMAIN names |-> rosdep_to_conda_package_name(names[i], d, data)]))

\* [ItemPackageDependency(name) for name in names] (lines 150-151).
items_of(names) == [i \in DOMAIN names |-> ConcreteItem(names[i])]

\* package_xml_to_conda_requirements(pkg, distro):
\* <<the package after the call, the returned ConditionalRequirements>>.
package_xml_to_conda_requirements(p, d, data) ==
    LET p1 == grow_buildtool_depends(p)
        build_deps == condition_names(p1.buildtool_depends) \o workspace_default(d)
        conda_build_deps == conda_deps(build_deps, d, data)
        p2 == grow_run_depends(p1)
        run_deps == condition_names(p2.run_depends)
        conda_run_deps == conda_deps(run_deps, d, data)
        build_requirements == items_of(conda_build_deps)
        run_requirements == items_of(conda_run_deps)
    IN  <<p2, [host |-> build_requirements, build |-> build_requirements, run |-> run_requirements]>>

\* ---- the inputs of the extractor
ManifestNames == {ros_workspace, std_msgs, opengl, libx11_dev, boost}
Declarations == DependLists \X ManifestNames \X BOOLEAN

DependsOf(declared, list) ==
    LET sel == SelectSeq(declared, LAMBDA x : x[1] = list)
    IN  [i \in DOMAIN sel |-> Dependency(sel[i][2], sel[i][3])]

\* The mapping table the extractor runs with.
ExtractTable ==
    [k \in {opengl, libx11_dev} |->
        IF k = opengl THEN ListEntry(<<REQUIRE_OPENGL>>) ELSE ListEntry(<<xorg_libx11>>)]

EmptyPackage == [l \in DependLists |-> <<>>]

ExtractIdle ==
    /\ calls = 0
    /\ pkg = EmptyPackage
    /\ pkg_parsed = EmptyPackage
    /\ requirements = EmptyRequirements

ExtractInit ==
    /\ calls = 0
    /\ \E declared \in SeqsUpTo(Declarations, MaxDecls) :
         pkg = [l \in DependLists |-> DependsOf(declared, l)]
    /\ pkg_parsed = pkg
    /\ requirements = EmptyRequirements

\* One call of package_xml_to_conda_requirements(pkg, distro).
PackageXmlToCondaRequirements ==
    /\ calls < MaxCalls
    /\ LET out == package_xml_to_conda_requirements(pkg, distro, robostack_data)
       IN  /\ pkg' = out[1]
           /\ requirements' = out[2]
    /\ calls' = calls + 1
    /\ UNCHANGED pkg_parsed
    /\ UNCHANGED <<mergeVars, mapVars, sharedVars, genVars>>

\* ===========================================================================
\* ROSGenerator.generate_recipe (ros_generator.py:59-144)
\* ===========================================================================

\* Platform.is_unix, .is_windows, .is_osx of the three platform tags.
is_unix(p) == p \in {"linux", "osx"}
is_windows(p) == p = "win64"
is_osx(p) == p = "osx"

\* requirements.<category>.append(item): a ConditionalRequirements holds one list
\* per category, and an append to one category is an append to that list alone.
AppendTo(reqs, category, item) == [reqs EXCEPT ![category] = Append(@, item)]

RECURSIVE AppendAll(_, _, _)
\* for item in items: requirements.<category>.append(item)
AppendAll(reqs, category, items) ==
    IF items = <<>> THEN reqs
    ELSE AppendAll(AppendTo(reqs, category, Head(items)), category, Tail(items))

\* A dependency declaration of package.xml: the list it belongs to, its name and
\* its condition attribute (None, or Some(v) for condition="$ROS_VERSION == v").
Declared(list, name, condition) == [list |-> list, name |-> name, condition |-> condition]

\* catkin_pkg's evaluation of a condition in the context os.environ: no
\* condition is true; an unset variable reads as the empty text.
evaluate_condition(condition, ros_version) ==
    condition = None \/ Str(ros_version) = condition[1]

\* convert_package_xml_to_catkin_package (utils.py:57-66): the six lists with
\* every condition evaluated against os.environ as it is at this moment.
convert_package_xml_to_catkin_package(depends, ros_version) ==
    [l \in DependLists |->
        LET sel == SelectSeq(depends, LAMBDA x : x.list = l)
        IN  [i \in DOMAIN sel |->
                Dependency(sel[i].name, evaluate_condition(sel[i].condition, ros_version))]]

\* Line 19 of distro.py setting the marker only when it is not set yet.
ros_version_keep_first(d, ros_version) ==
    IF ros_version = None THEN Some(IF check_ros1(d) THEN "1" ELSE "2") ELSE ros_version

\* os.environ["ROS_VERSION"] after Distro.__init__ (distro.py:19), given its
\* value before.
ros_version_of(d, ros_version) == Some(IF check_ros1(d) THEN "1" ELSE "2")

undefined == <<"undefined">>

\* Lines 85-86 taking the manifest name as it is.
package_name_plain(base_name, d, manifest_name) ==
    IF base_name = undefined
    THEN <<"ros", "-", d.distro_name, "-">> \o manifest_name
    ELSE base_name

\* Lines 85-86: the package name.
package_name(base_name, d, manifest_name) ==
    IF base_name = undefined
    THEN <<"ros", "-", d.distro_name, "-">> \o Replace(manifest_name, "_", "-")
    ELSE base_name

\* Lines 88-89: the package version.
package_version(base_version, manifest_version) ==
    IF base_version = "0.0.0" THEN manifest_version ELSE base_version

\* Lines 95-101: the standard build dependencies.
standard_build_deps(platform) ==
    <<<<"ninja">>, <<"python">>, <<"setuptools">>, <<"git">>, <<"git", "-", "lfs">>,
      <<"cmake">>, <<"cpython">>>>
    \o (IF is_unix(platform) THEN <<<<"patch">>, <<"make">>, <<"coreutils">>>> ELSE <<>>)
    \o (IF is_windows(platform) THEN <<<<"m2", "-", "patch">>>> ELSE <<>>)
    \o (IF is_osx(platform) THEN <<<<"tapi">>>> ELSE <<>>)

\* Lines 107-108: the compiler templates.
compiler_items == <<TemplateItem("${{ compiler('c') }}"), TemplateItem("${{ compiler('cxx') }}")>>

\* Line 110: the standard host dependencies.
standard_host_deps == <<<<"python">>, <<"numpy">>, <<"pip">>, <<"pkg", "-", "config">>>>

\* Lines 103-108: the appends to package_requirements.build.
add_build_deps(reqs, platform) ==
    AppendAll(AppendAll(reqs, "build", items_of(standard_build_deps(platform))),
              "build", compiler_items)

\* Lines 112-113 appending to the build category.
add_host_deps_to_build(reqs) == AppendAll(reqs, "build", items_of(standard_host_deps))

\* Lines 112-113: the appends to package_requirements.host.
add_host_deps(reqs) == AppendAll(reqs, "host", items_of(standard_host_deps))

\* merge_requirements as a function: the returned ConditionalRequirements.
merge_requirements(model_requirements, package_requirements) ==
    [c \in Categories |-> merge_unique_items(model_requirements[c], package_requirements[c])[2]]

\* load_from_template falling back to the catkin template for an unknown kind.
template_name_fallback(build_type) ==
    CASE build_type = "ament_cmake" -> Some("build_ament_cmake.sh.in")
      [] build_type = "ament_python" -> Some("build_ament_python.sh.in")
      [] OTHER -> Some("build_catkin.sh.in")

\* BuildScriptContext.load_from_template (build_script.py:45-52): the template of
\* a build type, None where line 52 raises ValueError.
template_name(build_type) ==
    CASE build_type = "ament_cmake" -> Some("build_ament_cmake.sh.in")
      [] build_type = "ament_python" -> Some("build_ament_python.sh.in")
      [] build_type \in {"cmake", "catkin"} -> Some("build_catkin.sh.in")
      [] OTHER -> None

\* Nothing produced yet.
NoResult ==
    [distro |-> Distro("jazzy"), evaluated_against |-> None, computed |-> EmptyRequirements,
     name |-> <<>>, version |-> "", requirements |-> EmptyRequirements,
     script |-> None, error |-> None, returned |-> FALSE]

\* The body of generate_recipe run on arguments c with os.environ["ROS_VERSION"]
\* being ros_version: <<what the call produced, ROS_VERSION after it>>.
generate_recipe(c, ros_version, data) ==
    LET \* lines 76-77: the manifest is parsed and its conditions are evaluated
        package_xml == convert_package_xml_to_catkin_package(c.manifest.depends, ros_version)
        \* line 80
        d == Distro(c.config.distro)
        env == ros_version_of(d, ros_version)
        \* lines 82-89
        name == package_name(c.model.name, d, c.manifest.name)
        version == package_version(c.model.version, c.manifest.version)
        \* line 92
        package_requirements == package_xml_to_conda_requirements(package_xml, d, data)[2]
        \* lines 94-113
        computed == add_host_deps(add_build_deps(package_requirements, c.host_platform))
        \* lines 116-117
        merged_requirements == merge_requirements(c.model.requirements, computed)
        \* lines 121-125
        template == template_name(c.manifest.build_type)
        \* lines 132-138
        debug_fails == c.config.debug_dir /\ ~c.debug_writable
        error == IF template = None THEN Some("ValueError: Unsupported build type")
                 ELSE IF debug_fails THEN Some("OSError: debug file")
                 ELSE None
    IN  <<[distro |-> d, evaluated_against |-> ros_version, computed |-> computed,
           name |-> name, version |-> version, requirements |-> merged_requirements,
           script |-> template, error |-> error, returned |-> (error = None)],
          env>>

\* ---- the inputs of generate_recipe
BuildTypes == {"ament_cmake", "ament_python", "cmake", "catkin", "meson"}
demo_nodes_cpp == <<"demo", "_", "nodes", "_", "cpp">>
my_pkg == <<"my", "_", "pkg">>

GenDepends ==
    {<<>>,
     <<Declared("build_depends", std_msgs, None)>>,
     <<Declared("build_depends", opengl, Some("2"))>>,
     <<Declared("exec_depends", std_msgs, Some("1")), Declared("build_depends", boost, None)>>}

BaseRequirementSets ==
    {EmptyRequirements,
     [host |-> <<ConcreteItem(<<"python">>)>>,
      build |-> <<ConcreteItem(<<"cmake">>), TemplateItem("${{ compiler('c') }}")>>,
      run |-> <<>>]}

Calls ==
    [config : [distro : DistroNames, debug_dir : BOOLEAN],
     debug_writable : BOOLEAN,
     host_platform : Platforms,
     model : [name : {undefined, my_pkg}, version : {"0.0.0", "1.2.3"},
              requirements : BaseRequirementSets],
     manifest : [name : {demo_nodes_cpp}, version : {"0.3.0"},
                 build_type : BuildTypes, depends : GenDepends]]

NoCall == CHOOSE c \in Calls :
    /\ ~c.config.debug_dir /\ c.debug_writable /\ c.config.distro = "jazzy"
    /\ c.host_platform = "linux" /\ c.model.name = undefined /\ c.model.version = "0.0.0"
    /\ c.model.requirements = EmptyRequirements
    /\ c.manifest.build_type = "catkin" /\ c.manifest.depends = <<>>

GenIdle ==
    /\ gpc = "off"
    /\ environ = None
    /\ last_distros = <<>>
    /\ call = NoCall
    /\ generated = NoResult

\* The process starts with ROS_VERSION unset or set by its environment.
GenInit ==
    /\ gpc = "idle"
    /\ environ \in {None, Some("1"), Some("2")}
    /\ last_distros = <<>>
    /\ call = NoCall
    /\ generated = NoResult

\* The names of the last two distributions constructed, the newest last.
Remember(history, name) ==
    IF Len(history) < 2 THEN Append(history, name) ELSE <<history[2], name>>

\* Distro(distro_name) constructed on its own, as the tests do (distro.py:10-19).
ConstructDistro ==
    /\ gpc = "idle"
    /\ \E n \in DistroNames :
         /\ distro' = Distro(n)
         /\ environ' = ros_version_of(Distro(n), environ)
         /\ last_distros' = Remember(last_distros, n)
    /\ UNCHANGED <<gpc, call, generated, robostack_data>>
    /\ UNCHANGED <<mergeVars, mapVars, extractVars>>

\* The backend calls generate_recipe with some arguments; debug_writable is
\* whether the debug directory, if any, can be written.  A debug directory that
\* is not configured is never written: debug_writable says nothing then.
CallGenerateRecipe ==
    /\ gpc = "idle"
    /\ \E c \in Calls :
         /\ (~c.config.debug_dir => c.debug_writable)
         /\ call' = c
    /\ gpc' = "called"
    /\ generated' = NoResult
    /\ UNCHANGED <<environ, last_distros, sharedVars>>
    /\ UNCHANGED <<mergeVars, mapVars, extractVars>>

\* generate_recipe runs to its return or to the exception that ends it.
GenerateRecipe ==
    /\ gpc = "called"
    /\ LET out == generate_recipe(call, environ, robostack_data)
       IN  /\ generated' = out[1]
           /\ environ' = out[2]
           /\ distro' = out[1].distro
           /\ gpc' = IF out[1].returned THEN "returned" ELSE "failed"
    /\ last_distros' = Remember(last_distros, call.config.distro)
    /\ UNCHANGED <<call, robostack_data>>
    /\ UNCHANGED <<mergeVars, mapVars, extractVars>>

\* The call is over: the process is ready for the next one.
FinishCall ==
    /\ gpc \in {"returned", "failed"}
    /\ gpc' = "idle"
    /\ call' = NoCall
    /\ generated' = NoResult
    /\ UNCHANGED <<environ, last_distros, sharedVars>>
    /\ UNCHANGED <<mergeVars, mapVars, extractVars>>

\* ===========================================================================
\* Specifications
\* ===========================================================================

SharedIdle ==
    /\ distro = Distro("jazzy")
    /\ robostack_data = EmptyTable

\* merge_requirements on every base and computed requirement set of the bounds.
InitMerge == MergeInit /\ MapIdle /\ SharedIdle /\ ExtractIdle /\ GenIdle
NextMerge == MergeRequirements
SpecMerge == InitMerge /\ [][NextMerge]_vars

\* rosdep_to_conda_package_name on every name, distribution and table of the bounds.
InitMap ==
    /\ MapInit
    /\ distro \in {Distro(n) : n \in DistroNames}
    /\ robostack_data \in Tables
    /\ MergeIdle /\ ExtractIdle /\ GenIdle
NextMap == RosdepToCondaPackageName
SpecMap == InitMap /\ [][NextMap]_vars

\* package_xml_to_conda_requirements, called up to MaxCalls times on one manifest.
InitExtract ==
    /\ ExtractInit
    /\ distro \in {Distro(n) : n \in DistroNames}
    /\ robostack_data = ExtractTable
    /\ MergeIdle /\ MapIdle /\ GenIdle
NextExtract == PackageXmlToCondaRequirements
SpecExtract == InitExtract /\ [][NextExtract]_vars

\* A process that constructs distributions and generates recipes, one call after
\* the other.
InitGen ==
    /\ GenInit
    /\ distro = Distro("jazzy")
    /\ robostack_data = ExtractTable
    /\ MergeIdle /\ MapIdle /\ ExtractIdle
NextGen == ConstructDistro \/ CallGenerateRecipe \/ GenerateRecipe \/ FinishCall
SpecGen == InitGen /\ [][NextGen]_vars

Init == InitMerge \/ InitMap \/ InitExtract \/ InitGen
Next == NextMerge \/ NextMap \/ NextExtract \/ NextGen
Spec == Init /\ [][Next]_vars


\* ===========================================================================
\* Properties of merge_requirements (checked under SpecMerge)
\* ===========================================================================

\* The entries a call appended to category c of the base.
Appended(c) == SubSeq(merged[c], Len(model_before[c]) + 1, Len(merged[c]))

\* An incoming requirement that is the same as no base requirement of category c.
NewToBase(x, c) == \A i \in DOMAIN model_before[c] : ~SameRequirement(x, model_before[c][i])

\* The position of the first entry of list that is the same requirement as x.
FirstIndex(list, x) == CHOOSE i \in DOMAIN list :
    /\ SameRequirement(list[i], x)
    /\ \A j \in DOMAIN list : SameRequirement(list[j], x) => i <= j

\* C1: in every category the merged list starts with the base list, entry for
\* entry and in the same order: no base entry is removed or reordered.
C1_BasePrefixKept ==
    mpc = "done" =>
        \A c \in Categories :
            /\ Len(merged[c]) >= Len(model_before[c])
            /\ SubSeq(merged[c], 1, Len(model_before[c])) = model_before[c]

\* C1 witness: a call with a non-empty base category to which something was appended.
C1_Witness ==
    /\ mpc = "done"
    /\ \E c \in Categories : model_before[c] # <<>> /\ Len(merged[c]) > Len(model_before[c])

C3_ComputedAppendedOnceInOrder ==
    mpc = "done" =>
        \A c \in Categories :
            /\ Len(merged[c]) >= Len(model_before[c])
            /\ \A j \in DOMAIN Appended(c) :
                 /\ Appended(c)[j] \in Range(package_lists[c])
                 /\ NewToBase(Appended(c)[j], c)
            /\ \A i \in DOMAIN package_lists[c] :
                 NewToBase(package_lists[c][i], c) =>
                    Cardinality({j \in DOMAIN merged[c] :
                                    SameRequirement(merged[c][j], package_lists[c][i])}) = 1
            /\ \A j1, j2 \in DOMAIN Appended(c) :
                 j1 < j2 => FirstIndex(package_lists[c], Appended(c)[j1])
                              < FirstIndex(package_lists[c], Appended(c)[j2])

\* C3 witness: a call where one computed requirement is the same as a base one
\* and is not appended, and another one is new and is appended.
C3_Witness ==
    /\ mpc = "done"
    /\ \E c \in Categories :
         /\ \E i \in DOMAIN package_lists[c] : ~NewToBase(package_lists[c][i], c)
         /\ \E i \in DOMAIN package_lists[c] : NewToBase(package_lists[c][i], c)
         /\ Len(Appended(c)) = 1


\* ===========================================================================
\* Properties of rosdep_to_conda_package_name (checked under SpecMap)
\* ===========================================================================

InTable == dep_name \in DOMAIN robostack_data

HasMarker(list) == REQUIRE_GL \in Range(list) \/ REQUIRE_OPENGL \in Range(list)

\* C4 as claimed: every name absent from the table and from the distribution is
\* returned unchanged as [name], the distribution-tooling names included.
C4_PassThroughEveryName ==
    (rpc = "done" /\ ~InTable /\ ~has_package(distro, dep_name))
        => conda_packages = <<dep_name>>

\* C4 as amended: every name that is absent from the table and from the
\* distribution and is not one of the four distribution-tooling names is
\* returned unchanged as [name].
C4_PassThroughExceptTooling ==
    (rpc = "done" /\ ~InTable /\ ~has_package(distro, dep_name) /\ dep_name \notin ToolingNames)
        => conda_packages = <<dep_name>>

\* C4 witness: a name with an underscore, in neither the table nor the
\* distribution and no tooling name, has been mapped.
C4_Witness ==
    /\ rpc = "done" /\ ~InTable /\ ~has_package(distro, dep_name)
    /\ dep_name \notin ToolingNames
    /\ "_" \in Range(dep_name)

\* C5 as claimed: a name whose table entry is a flat list maps to that list
\* unchanged, whatever the distribution.
C5_FlatListUnchanged ==
    (rpc = "done" /\ InTable /\ robostack_data[dep_name].kind = "list")
        => conda_packages = robostack_data[dep_name].list

\* C5 as amended: a name that is not a distribution-tooling name and whose table
\* entry is a flat list without a virtual marker maps to that list unchanged,
\* whatever the distribution.
C5_FlatListUnchangedNoMarker ==
    (/\ rpc = "done" /\ InTable /\ robostack_data[dep_name].kind = "list"
     /\ dep_name \notin ToolingNames
     /\ ~HasMarker(robostack_data[dep_name].list))
        => conda_packages = robostack_data[dep_name].list

\* C5 witness: a name with a non-empty flat list without marker has been mapped
\* for a distribution that releases a package of that name.
C5_Witness ==
    /\ rpc = "done" /\ InTable /\ robostack_data[dep_name].kind = "list"
    /\ dep_name \notin ToolingNames
    /\ robostack_data[dep_name].list # <<>>
    /\ ~HasMarker(robostack_data[dep_name].list)
    /\ has_package(distro, dep_name)

\* C6 as claimed: when the recipe is generated for Linux and the Linux list of
\* the name's table entry holds REQUIRE_GL, the returned list holds libgl-devel
\* and no REQUIRE_GL.
C6_LinuxGLExpanded ==
    (/\ rpc = "done" /\ InTable /\ dep_name \notin ToolingNames
     /\ build_target = "linux"
     /\ REQUIRE_GL \in Range(entry_packages(robostack_data[dep_name], "linux")))
        => /\ libgl_devel \in Range(conda_packages)
           /\ REQUIRE_GL \notin Range(conda_packages)

\* C7 as claimed: the list returned for a table entry holds no marker, so
\* expanding it again returns the same list.
C7_ExpansionIdempotent ==
    (rpc = "done" /\ InTable /\ dep_name \notin ToolingNames)
        => /\ ~HasMarker(conda_packages)
           /\ expand_markers(conda_packages, target_platform) = conda_packages

\* C8: a name absent from the table that the distribution releases maps to the
\* one-element list ["ros-<distro.name>-<name>"], each "_" of name turned to "-".
C8_DistroPackageName ==
    (rpc = "done" /\ ~InTable /\ has_package(distro, dep_name))
        => /\ Len(conda_packages) = 1
           /\ Len(conda_packages[1]) = Len(dep_name) + 4
           /\ SubSeq(conda_packages[1], 1, 4) = <<"ros", "-", distro.distro_name, "-">>
           /\ \A i \in DOMAIN dep_name :
                conda_packages[1][i + 4] = (IF dep_name[i] = "_" THEN "-" ELSE dep_name[i])

\* C8 witness: a released name with an underscore that is no tooling name and
\* not in the table has been mapped.
C8_Witness ==
    /\ rpc = "done" /\ ~InTable /\ has_package(distro, dep_name)
    /\ dep_name \notin ToolingNames
    /\ "_" \in Range(dep_name)


\* ===========================================================================
\* Properties of package_xml_to_conda_requirements (checked under SpecExtract)
\* ===========================================================================

\* The manifest categories the spec assigns to the build and to the run aggregate.
BuildLists == {"buildtool_depends", "buildtool_export_depends", "build_depends",
               "build_export_depends"}
RunLists == {"run_depends", "exec_depends", "build_export_depends",
             "buildtool_export_depends"}

\* The declarations of the parsed manifest in the given categories whose
\* evaluated condition is true.
ActiveDeclarations(lists) ==
    UNION {{d \in Range(pkg_parsed[l]) : d.evaluated_condition} : l \in lists}

\* The target names those declarations map to.
MappedNames(lists) ==
    UNION {Range(rosdep_to_conda_package_name(d.name, distro, robostack_data))
             : d \in ActiveDeclarations(lists)}

\* The package names of a list of concrete requirements.
ItemNames(list) == {list[i].concrete[1] : i \in DOMAIN list}

AllConcrete(list) == \A i \in DOMAIN list : list[i].concrete # None /\ list[i].template = None

\* "ros-<distro>-ros-workspace"
WorkspaceMarker == <<"ros", "-", distro.distro_name, "-", "ros", "-", "workspace">>

\* C9 as claimed: for a generation-2 distribution the build requirements hold
\* the workspace marker whatever the manifest declares; for a generation-1
\* distribution they do not hold it.
C9_WorkspaceMarkerByGeneration ==
    calls >= 1 =>
        /\ ~check_ros1(distro) => WorkspaceMarker \in ItemNames(requirements.build)
        /\ check_ros1(distro) => WorkspaceMarker \notin ItemNames(requirements.build)

\* C9 as amended: for a generation-2 distribution the build requirements hold
\* the workspace marker whatever the manifest declares; for a generation-1
\* distribution they hold it only if a buildtool, buildtool-export, build or
\* build-export declaration with a true condition itself maps to it.
C9_WorkspaceMarkerAddedForGen2Only ==
    calls >= 1 =>
        /\ ~check_ros1(distro) => WorkspaceMarker \in ItemNames(requirements.build)
        /\ (check_ros1(distro) /\ WorkspaceMarker \in ItemNames(requirements.build))
              => WorkspaceMarker \in MappedNames(BuildLists)

\* C9 witness: an extraction for a generation-2 distribution from a non-empty
\* manifest that declares no ros_workspace.
C9_Witness ==
    /\ calls >= 1
    /\ ~check_ros1(distro)
    /\ \E l \in DependLists : pkg_parsed[l] # <<>>
    /\ \A l \in DependLists : \A i \in DOMAIN pkg_parsed[l] : pkg_parsed[l][i].name # ros_workspace
    /\ WorkspaceMarker \in ItemNames(requirements.build)

\* C10: the build requirements name exactly what the buildtool, buildtool-export,
\* build and build-export declarations with a true condition map to (plus the
\* workspace marker for generation 2), the run requirements exactly what the run,
\* exec, build-export and buildtool-export declarations with a true condition
\* map to; a declaration with a false condition, or of another category,
\* contributes nothing.
C10_AggregatesExact ==
    calls >= 1 =>
        /\ AllConcrete(requirements.build) /\ AllConcrete(requirements.run)
        /\ ItemNames(requirements.build) =
              MappedNames(BuildLists)
                \cup (IF check_ros1(distro) THEN {} ELSE {WorkspaceMarker})
        /\ ItemNames(requirements.run) = MappedNames(RunLists)

\* C10 witness: an extraction from a manifest with a declaration whose condition
\* is false, and a run declaration with a true condition that reached run but
\* not build.
C10_Witness ==
    /\ calls >= 1
    /\ \E l \in DependLists : \E i \in DOMAIN pkg_parsed[l] : ~pkg_parsed[l][i].evaluated_condition
    /\ \E i \in DOMAIN pkg_parsed.run_depends :
         LET d == pkg_parsed.run_depends[i]
             names == Range(rosdep_to_conda_package_name(d.name, distro, robostack_data))
         IN  /\ d.evaluated_condition
             /\ names # {}
             /\ names \subseteq ItemNames(requirements.run)
             /\ names \cap ItemNames(requirements.build) = {}


\* The declarations of the parsed manifest with a true condition, in the order
\* the aggregate of the given categories lists them.
ActiveNamesInOrder(lists) ==
    LET all == Flatten([i \in DOMAIN lists |-> pkg_parsed[lists[i]]])
        kept == SelectSeq(all, LAMBDA d : d.evaluated_condition)
    IN  [i \in DOMAIN kept |-> kept[i].name]

\* The flattened mapping results of a list of dependency names.
FlatMapped(names) ==
    Flatten([i \in DOMAIN names |-> rosdep_to_conda_package_name(names[i], distro, robostack_data)])

BuildFlat ==
    FlatMapped(ActiveNamesInOrder(<<"buildtool_depends", "buildtool_export_depends",
                                    "build_depends", "build_export_depends">>)
               \o (IF check_ros1(distro) THEN <<>> ELSE <<ros_workspace>>))
RunFlat ==
    FlatMapped(ActiveNamesInOrder(<<"run_depends", "exec_depends",
                                    "build_export_depends", "buildtool_export_depends">>))

\* The position of the first occurrence of x in list.
FirstPosition(list, x) == CHOOSE i \in DOMAIN list :
    list[i] = x /\ \A j \in DOMAIN list : list[j] = x => i <= j

\* list holds every element of flat, each once, in the order of their first
\* occurrence in flat.
FirstSeenOrder(list, flat) ==
    /\ Range(list) = Range(flat)
    /\ \A i, j \in DOMAIN list : i < j =>
         /\ list[i] # list[j]
         /\ FirstPosition(flat, list[i]) < FirstPosition(flat, list[j])

NamesOf(list) == [i \in DOMAIN list |-> list[i].concrete[1]]

\* C11: in each category of the extracted set no target name occurs twice and the
\* names stand in first-seen order of the flattened mapping results, also when
\* two dependency names map to one target name or a name is declared in several
\* manifest categories.
C11_DedupFirstSeenOrder ==
    calls >= 1 =>
        /\ FirstSeenOrder(NamesOf(requirements.build), BuildFlat)
        /\ FirstSeenOrder(NamesOf(requirements.host), BuildFlat)
        /\ FirstSeenOrder(NamesOf(requirements.run), RunFlat)

\* C11 witness: an extraction where two declarations of different names map to
\* a common target name, which the build list holds.
C11_Witness ==
    /\ calls >= 1
    /\ \E i, j \in DOMAIN ActiveNamesInOrder(<<"build_depends">>) :
         LET a == ActiveNamesInOrder(<<"build_depends">>)[i]
             b == ActiveNamesInOrder(<<"build_depends">>)[j]
         IN  /\ a # b
             /\ Range(FlatMapped(<<a>>)) \cap Range(FlatMapped(<<b>>)) # {}
    /\ Len(BuildFlat) > Len(requirements.build)


\* C18 as claimed: extraction leaves the manifest alone: after any number of
\* extractions each of its six dependency lists holds exactly the declarations
\* the parser put there.
C18_ManifestUnchanged ==
    calls >= 1 => \A l \in DependLists : pkg[l] = pkg_parsed[l]

\* ===========================================================================
\* More properties of merge_requirements (checked under SpecMerge)
\* ===========================================================================

\* C16 as claimed: the result is built on copies: after the call every category
\* list read from the base requirement set holds exactly the entries it held
\* before the call.
C16_BaseListsUnchanged ==
    mpc = "done" => \A c \in Categories : model_lists[c] = model_before[c]

\* ===========================================================================
\* Properties of generate_recipe and Distro (checked under SpecGen)
\* ===========================================================================

\* The current call has run to its end, by return or by exception.
CallOver == gpc \in {"returned", "failed"}

\* name with every "_" turned into "-".
Hyphenated(name) == [i \in DOMAIN name |-> IF name[i] = "_" THEN "-" ELSE name[i]]

\* C12: the recipe's name is "ros-<distro>-<manifest name, '_' as '-'>" exactly
\* when the base model's name is the placeholder "undefined", and its version is
\* the manifest's exactly when the base version is the placeholder "0.0.0"; any
\* other base name or version is kept.
C12_NameAndVersionSynthesis ==
    gpc = "returned" =>
        /\ generated.name =
              IF call.model.name = <<"undefined">>
              THEN <<"ros", "-", call.config.distro, "-">> \o Hyphenated(call.manifest.name)
              ELSE call.model.name
        /\ generated.version =
              IF call.model.version = "0.0.0" THEN call.manifest.version ELSE call.model.version

\* C12 witness: a recipe returned for humble whose name was synthesized from a
\* manifest name with underscores while the base version was kept.
C12_Witness ==
    /\ gpc = "returned"
    /\ call.config.distro = "humble"
    /\ call.model.name = undefined
    /\ call.model.version = "1.2.3"
    /\ generated.name = <<"ros", "-", "humble", "-", "demo", "-", "nodes", "-", "cpp">>
    /\ generated.version = "1.2.3"

RecognizedBuildTypes == {"ament_cmake", "ament_python", "cmake", "catkin"}

\* C13: a build kind outside {ament_cmake, ament_python, cmake, catkin} ends the
\* call with the unsupported-build-type error and no recipe is returned; a kind
\* inside the set never raises that error.
C13_UnsupportedBuildTypeAborts ==
    CallOver =>
        IF call.manifest.build_type \in RecognizedBuildTypes
        THEN generated.error # Some("ValueError: Unsupported build type")
        ELSE /\ gpc = "failed"
             /\ ~generated.returned
             /\ generated.error = Some("ValueError: Unsupported build type")
             /\ generated.script = None

\* C13 witness: a call for a manifest of build type meson has failed.
C13_Witness ==
    /\ gpc = "failed"
    /\ call.manifest.build_type = "meson"
    /\ generated.error = Some("ValueError: Unsupported build type")

\* C14 as claimed: with a debug directory configured, a failing write of the
\* debug snapshot does not abort generation: the call returns, and returns the
\* recipe it returns when no debug directory is configured.
C14_DebugFailureNotFatal ==
    (CallOver /\ call.config.debug_dir /\ ~call.debug_writable
        /\ call.manifest.build_type \in RecognizedBuildTypes) =>
        /\ gpc = "returned"
        /\ generated.returned
        /\ generated.error = None

\* The marker of a distribution: "1" for generation 1, "2" otherwise.
MarkerOf(distro_name) == IF DistroIndex[distro_name].distribution_type = "ros1" THEN "1" ELSE "2"

\* C15: once a Distro has been constructed, ROS_VERSION is the marker of the most
\* recently constructed distribution, and constructing the distribution that was
\* constructed last leaves it unchanged.
C15_MarkerFollowsLastDistro ==
    /\ [](last_distros # <<>> => environ = Some(MarkerOf(last_distros[Len(last_distros)])))
    /\ [][(/\ last_distros # <<>>
           /\ last_distros' # <<>>
           /\ last_distros'[Len(last_distros')] = last_distros[Len(last_distros)])
          => environ' = environ]_vars

\* C15 witness: a distribution of one generation constructed after one of the
\* other generation, with the marker of the later one.
C15_Witness ==
    /\ Len(last_distros) = 2
    /\ MarkerOf(last_distros[1]) = "2"
    /\ MarkerOf(last_distros[2]) = "1"
    /\ environ = Some("1")

\* What extraction returned in the current call.
Extracted ==
    package_xml_to_conda_requirements(
        convert_package_xml_to_catkin_package(call.manifest.depends, generated.evaluated_against),
        generated.distro, robostack_data)[2]

\* The concrete requirements of a list of names.
Concrete(names) == [i \in DOMAIN names |-> ConcreteItem(names[i])]

BaselineBuild ==
    <<<<"ninja">>, <<"python">>, <<"setuptools">>, <<"git">>, <<"git", "-", "lfs">>,
      <<"cmake">>, <<"cpython">>>>
PlatformExtras ==
    [linux |-> <<<<"patch">>, <<"make">>, <<"coreutils">>>>,
     osx |-> <<<<"patch">>, <<"make">>, <<"coreutils">>, <<"tapi">>>>,
     win64 |-> <<<<"m2", "-", "patch">>>>]
BaselineHost == <<<<"python">>, <<"numpy">>, <<"pip">>, <<"pkg", "-", "config">>>>

C19_ConditionsSeeOwnMarker ==
    CallOver =>
        \A i \in DOMAIN call.manifest.depends :
            evaluate_condition(call.manifest.depends[i].condition, generated.evaluated_against)
            = evaluate_condition(call.manifest.depends[i].condition,
                                 Some(MarkerOf(call.config.distro)))

====
